---- MODULE Spec2Model ----
(***************************************************************************)
(* State-machine model of the parking-spot marketplace backend             *)
(* (backend/main.py, app/dependencies.py, app/services/firebase_service.py *)
(* and the four routers).  Every HTTP handler is one atomic action: the    *)
(* identity gate, the handler's checks in source order, its store writes   *)
(* and the response it returns.  The document store is three collections,  *)
(* each a function from document ids to records.                           *)
(*                                                                         *)
(* Timestamps are whole hours counted from an arbitrary origin, so that    *)
(* (end - start).total_seconds() / 3600 is end - start.                    *)
(***************************************************************************)
EXTENDS Integers, Sequences, FiniteSets, TLC

VARIABLES
  users,        \* collection 'users':         uid -> record
  spots,        \* collection 'parking_spots': id  -> record
  bookings,     \* collection 'bookings':      id  -> record
  spotSeq,      \* number of parking-spot document ids handed out so far
  bookingSeq,   \* number of booking document ids handed out so far
  authUsers,    \* identities the identity provider currently knows
  now,          \* the value datetime.utcnow() returns
  resp,         \* the last request and the response it got
  inflight      \* requests that have read the store and not yet written

vars == <<users, spots, bookings, spotSeq, bookingSeq, authUsers, now, resp, inflight>>

-----------------------------------------------------------------------------
(* Bounds of the model *)

MaxSpots == 1
MaxBookings == 1
MaxClock == 2
MaxInFlight == 2

-----------------------------------------------------------------------------
(* Values *)

None == "None"

Identities == {"alice", "bob"}

\* A bearer credential is either a token the provider verifies, named after
\* the identity it resolves to, or one it refuses.
BadToken == "bad-token"
Tokens == Identities \cup {BadToken}

\* Instants requests and spots name
Times == {0, 1, 2}

VehicleSize == {"compact", "midsize", "large", "suv", "any"}

BookingStatus ==
  {"pending", "approved", "rejected", "confirmed", "completed", "cancelled"}

HTTP_200_OK == 200
HTTP_400_BAD_REQUEST == 400
HTTP_401_UNAUTHORIZED == 401
HTTP_403_FORBIDDEN == 403
HTTP_404_NOT_FOUND == 404
HTTP_409_CONFLICT == 409
HTTP_500_INTERNAL_SERVER_ERROR == 500

-----------------------------------------------------------------------------
(* Identity gate and store adapter *)

\* verify_token: the decoded claim's uid, or None when verification raises
\* (the dependency then answers 401 and the handler never runs).
verify_token(token) == IF token \in Identities THEN token ELSE None

\* An Optional document: <<>> is Python's None, <<d>> the dict d.
NoDoc == <<>>

GetDoc(coll, id) == IF id \in DOMAIN coll THEN <<coll[id]>> ELSE NoDoc

get_user(uid) == GetDoc(users, uid)

get_parking_spot(spot_id) == GetDoc(spots, spot_id)

get_booking(booking_id) == GetDoc(bookings, booking_id)

\* A collection with no document
EmptyColl == [k \in {} |-> NoDoc]

\* document(id).set(data) on a fresh or existing id
SetDoc(coll, id, data) ==
  [k \in DOMAIN coll \cup {id} |-> IF k = id THEN data ELSE coll[k]]

\* document(id).delete(): succeeds whether or not the document exists
DeleteDoc(coll, id) == [k \in DOMAIN coll \ {id} |-> coll[k]]

\* The fields of `data` written over those of `rec` (document.update)
Merge(rec, data) ==
  [f \in DOMAIN rec \cup DOMAIN data |->
     IF f \in DOMAIN data THEN data[f] ELSE rec[f]]

\* Mutant: an update that never fails.
UpdateNeverFails(coll, id) == TRUE

\* document(id).update(data): raises when the document is missing, which the
\* adapter turns into False
UpdateOk(coll, id) == id \in DOMAIN coll

UpdateDoc(coll, id, data) ==
  IF UpdateOk(coll, id) THEN [coll EXCEPT ![id] = Merge(coll[id], data)]
  ELSE coll

\* A response: which endpoint, the credential presented (None when the
\* endpoint takes none), the identity the request acts for (what the
\* credential resolves to, or the identity register and login name), the
\* document id the request names (0 when it names none), the status code,
\* and the payload (<<>> when there is none).
NoTarget == 0
NoData == <<>>
NoQuery == <<>>

\* `query` is what a listing request asks for (its filters, page and size).
Response(op, token, uid, target, code, data) ==
  [op |-> op, token |-> token, uid |-> uid, target |-> target,
   query |-> NoQuery, code |-> code, data |-> data]

\* A handler that runs from its first read to its response in one step
\* leaves the requests in flight as they are.
Reply(op, token, target, code, data) ==
  /\ resp' = Response(op, token, verify_token(token), target, code, data)
  /\ inflight' = inflight

\* Mutant: the handler has stamped the bookings before the check that fails.
FailAfterStamp(op, token, target, code) ==
  /\ Reply(op, token, target, code, NoData)
  /\ bookings' = [b \in DOMAIN bookings |-> Merge(bookings[b], [responded_at |-> now])]
  /\ UNCHANGED <<users, spots, spotSeq, bookingSeq, authUsers, now>>

\* An error response: nothing is written.
Fail(op, token, target, code) ==
  /\ Reply(op, token, target, code, NoData)
  /\ UNCHANGED <<users, spots, bookings, spotSeq, bookingSeq, authUsers, now>>

\* The same for the endpoints that take the identity as a parameter
ReplyNamed(op, firebase_uid, code, data) ==
  /\ resp' = Response(op, None, firebase_uid, NoTarget, code, data)
  /\ inflight' = inflight

FailNamed(op, firebase_uid, code) ==
  /\ ReplyNamed(op, firebase_uid, code, NoData)
  /\ UNCHANGED <<users, spots, bookings, spotSeq, bookingSeq, authUsers, now>>

-----------------------------------------------------------------------------
(* parking_spots_router: create, update, delete *)

\* The supplied owner must be the authenticated identity.
SpotOwnerIsCaller(owner_id, firebase_uid) == owner_id = firebase_uid

\* POST /parking-spots/.  `cap` bounds the number of ids handed out.
create_parking_spot(token, owner_id, owner_name, hourly_rate, is_available, availability_start, availability_end, latitude, longitude, max_vehicle_size, cap) ==
  LET firebase_uid == verify_token(token)
      op == "create_spot"
      spot_id == spotSeq + 1
      spot_dict == [ id |-> spot_id,
                     latitude |-> latitude,
                     longitude |-> longitude,
                     hourly_rate |-> hourly_rate,
                     is_available |-> is_available,
                     availability_start |-> availability_start,
                     availability_end |-> availability_end,
                     max_vehicle_size |-> max_vehicle_size,
                     owner_id |-> owner_id,
                     owner_name |-> owner_name,
                     created_at |-> now,
                     updated_at |-> now ]
  IN
  IF firebase_uid = None THEN Fail(op, token, NoTarget, HTTP_401_UNAUTHORIZED)
  ELSE IF ~SpotOwnerIsCaller(owner_id, firebase_uid)
  THEN Fail(op, token, NoTarget, HTTP_403_FORBIDDEN)
  ELSE /\ spotSeq < cap
       /\ spots' = SetDoc(spots, spot_id, spot_dict)
       /\ spotSeq' = spot_id
       /\ Reply(op, token, NoTarget, HTTP_200_OK, <<spot_id>>)
       /\ UNCHANGED <<users, bookings, bookingSeq, authUsers, now>>

\* The stored owner must be the authenticated identity.
IsSpotOwner(spot, firebase_uid) == spot.owner_id = firebase_uid

\* The fields of ParkingSpotUpdate that the model keeps (address,
\* description and image_url are not modelled)
UpdatableFields ==
  {"latitude", "longitude", "hourly_rate", "is_available", "availability_start",
   "availability_end", "max_vehicle_size"}

\* Mutant: every field of the request body is taken over.
ParkingSpotUpdateKeepsAll(body) == body

\* The request body parsed as ParkingSpotUpdate: a field the class does not
\* declare is dropped.
ParkingSpotUpdate(body) == [f \in DOMAIN body \cap UpdatableFields |-> body[f]]

\* PUT /parking-spots/{id}.  `body` holds exactly the fields the request
\* supplies (a field left out, or null, is not in its domain).
update_parking_spot(token, spot_id, body) ==
  LET firebase_uid == verify_token(token)
      op == "update_spot"
      spot_update == ParkingSpotUpdate(body)
      existing_spot == get_parking_spot(spot_id)
      update_data == Merge(spot_update, [updated_at |-> now])
  IN
  IF firebase_uid = None THEN Fail(op, token, spot_id, HTTP_401_UNAUTHORIZED)
  ELSE IF existing_spot = NoDoc THEN Fail(op, token, spot_id, HTTP_404_NOT_FOUND)
  ELSE IF ~IsSpotOwner(existing_spot[1], firebase_uid)
  THEN Fail(op, token, spot_id, HTTP_403_FORBIDDEN)
  ELSE /\ spots' = UpdateDoc(spots, spot_id, update_data)
       /\ Reply(op, token, spot_id, HTTP_200_OK, GetDoc(spots', spot_id))
       /\ UNCHANGED <<users, bookings, spotSeq, bookingSeq, authUsers, now>>

\* Mutant: deleting a spot cancels the open bookings that reference it.
CancelOpenBookingsOfSpot(spot_id) ==
  [b \in DOMAIN bookings |->
     IF bookings[b].spot_id = spot_id /\ bookings[b].status \in {"pending", "approved"}
     THEN Merge(bookings[b], [status |-> "cancelled"])
     ELSE bookings[b]]

\* The bookings collection after a spot was deleted: the handler deletes the
\* spot document and writes nothing else.
BookingsAfterSpotDelete(spot_id) == bookings

\* DELETE /parking-spots/{id}
delete_parking_spot(token, spot_id) ==
  LET firebase_uid == verify_token(token)
      op == "delete_spot"
      existing_spot == get_parking_spot(spot_id)
  IN
  IF firebase_uid = None THEN Fail(op, token, spot_id, HTTP_401_UNAUTHORIZED)
  ELSE IF existing_spot = NoDoc THEN Fail(op, token, spot_id, HTTP_404_NOT_FOUND)
  ELSE IF ~IsSpotOwner(existing_spot[1], firebase_uid)
  THEN Fail(op, token, spot_id, HTTP_403_FORBIDDEN)
  ELSE /\ spots' = DeleteDoc(spots, spot_id)
       /\ bookings' = BookingsAfterSpotDelete(spot_id)
       /\ Reply(op, token, spot_id, HTTP_200_OK, NoData)
       /\ UNCHANGED <<users, spotSeq, bookingSeq, authUsers, now>>

-----------------------------------------------------------------------------
(* parking_spots_router: distance, listing, lookup                          *)
(*                                                                           *)
(* Latitudes and longitudes are tenths of a degree, 0..3 (0.0 to 0.3         *)
(* degrees).  On that grid calculate_distance depends only on the two        *)
(* absolute differences; HaversineMetres holds the function's value for     *)
(* each, rounded up to a whole metre, so that comparing it with a whole      *)
(* number of metres gives what the floating-point comparison gives.          *)

Coords == 0..3

Abs(x) == IF x < 0 THEN -x ELSE x

HaversineMetres ==
  <<0, 0>> :> 0 @@ <<0, 1>> :> 11120 @@ <<0, 2>> :> 22239 @@ <<0, 3>> :> 33359 @@
  <<1, 0>> :> 11120 @@ <<1, 1>> :> 15726 @@ <<1, 2>> :> 24864 @@ <<1, 3>> :> 35163 @@
  <<2, 0>> :> 22239 @@ <<2, 1>> :> 24864 @@ <<2, 2>> :> 31451 @@ <<2, 3>> :> 40092 @@
  <<3, 0>> :> 33359 @@ <<3, 1>> :> 35163 @@ <<3, 2>> :> 40092 @@ <<3, 3>> :> 47176

calculate_distance(lat1, lon1, lat2, lon2) ==
  HaversineMetres[<<Abs(lat2 - lat1), Abs(lon2 - lon1)>>]

\* The ids of a collection in the order the store streams its documents
RECURSIVE Ascending(_)
Ascending(ids) ==
  IF ids = {} THEN <<>>
  ELSE LET least == CHOOSE i \in ids : \A j \in ids : i <= j
       IN <<least>> \o Ascending(ids \ {least})

get_available_parking_spots ==
  LET ids == Ascending({i \in DOMAIN spots : spots[i].is_available = TRUE})
  IN [n \in 1..Len(ids) |-> spots[ids[n]]]

get_parking_spots_by_owner(owner_id) ==
  LET ids == Ascending({i \in DOMAIN spots : spots[i].owner_id = owner_id})
  IN [n \in 1..Len(ids) |-> spots[ids[n]]]

\* Python's truth value of an optional number of the search: present and
\* not zero
Truthy(search, field) == field \in DOMAIN search /\ search[field] # 0

\* "Location filter": the spot is skipped
LocationFilterSkips(search, spot) ==
  /\ Truthy(search, "latitude") /\ Truthy(search, "longitude")
  /\ Truthy(search, "radius")
  /\ calculate_distance(search.latitude, search.longitude,
                        spot.latitude, spot.longitude) > search.radius

\* "Price filter": the spot is skipped
PriceFilterSkips(search, spot) ==
  Truthy(search, "max_price") /\ spot.hourly_rate > search.max_price

\* "Vehicle size filter": the spot is skipped
VehicleFilterSkips(search, spot) ==
  /\ "vehicle_size" \in DOMAIN search
  /\ spot.max_vehicle_size # search.vehicle_size

\* "Time availability filter": the spot is skipped (a datetime is always true)
TimeFilterSkips(search, spot) ==
  /\ "start_time" \in DOMAIN search /\ "end_time" \in DOMAIN search
  /\ \/ spot.availability_start > search.start_time
     \/ spot.availability_end < search.end_time

\* The spots the filter loop keeps; `search` is <<>> (no search) or <<s>>,
\* s holding exactly the parameters supplied
FilterSpots(search, found) ==
  IF search = <<>> THEN found
  ELSE SelectSeq(found,
         LAMBDA spot : ~(\/ LocationFilterSkips(search[1], spot)
                         \/ PriceFilterSkips(search[1], spot)
                         \/ VehicleFilterSkips(search[1], spot)
                         \/ TimeFilterSkips(search[1], spot)))

\* Mutant: the slice starts one element late, spots[start_idx + 1:end_idx].
SliceSkipsFirst(seq, start_idx, end_idx) ==
  LET last == IF end_idx < Len(seq) THEN end_idx ELSE Len(seq)
  IN IF start_idx + 1 >= last THEN <<>>
     ELSE [n \in 1..(last - start_idx - 1) |-> seq[start_idx + 1 + n]]

\* spots[start_idx:end_idx]
Slice(seq, start_idx, end_idx) ==
  LET last == IF end_idx < Len(seq) THEN end_idx ELSE Len(seq)
  IN IF start_idx >= last THEN <<>>
     ELSE [n \in 1..(last - start_idx) |-> seq[start_idx + n]]

\* math.ceil(total / size)
CeilDiv(total, size) == (total + size - 1) \div size

ReplyQuery(op, token, query, code, data) ==
  /\ resp' = [Response(op, token, verify_token(token), NoTarget, code, data)
                EXCEPT !.query = query]
  /\ inflight' = inflight

\* GET /parking-spots/.  The handler takes no credential; the router is
\* mounted with the verify_token dependency.
get_parking_spots(token, search, page, size) ==
  LET op == "list_spots"
      query == <<[search |-> search, page |-> page, size |-> size]>>
      filtered == FilterSpots(search, get_available_parking_spots)
      total == Len(filtered)
      start_idx == (page - 1) * size
      end_idx == start_idx + size
      paginated_spots == Slice(filtered, start_idx, end_idx)
      data == [ spots |-> paginated_spots,
                pagination |-> [ total |-> total, page |-> page, size |-> size,
                                 pages |-> CeilDiv(total, size) ] ]
  IN
  /\ IF verify_token(token) = None
     THEN ReplyQuery(op, token, query, HTTP_401_UNAUTHORIZED, NoData)
     ELSE ReplyQuery(op, token, query, HTTP_200_OK, <<data>>)
  /\ UNCHANGED <<users, spots, bookings, spotSeq, bookingSeq, authUsers, now>>

\* Query(5000, ge=100, le=50000): the radius the nearby endpoint accepts
RadiusMin == 100
RadiusMax == 50000
HTTP_422_UNPROCESSABLE_ENTITY == 422

\* Mutant: the list is returned in store order, unsorted.
KeepStoreOrder(seq) == seq

\* list.sort(key=distance): a stable sort, by insertion from the left
RECURSIVE SortByDistance(_)
SortByDistance(seq) ==
  IF seq = <<>> THEN <<>>
  ELSE LET init == SortByDistance(SubSeq(seq, 1, Len(seq) - 1))
           x == seq[Len(seq)]
           before == SelectSeq(init, LAMBDA y : y.distance <= x.distance)
           after == SelectSeq(init, LAMBDA y : y.distance > x.distance)
       IN before \o <<x>> \o after

\* The spots within the radius, each with its distance, in store order
NearbySpots(latitude, longitude, radius) ==
  LET found == get_available_parking_spots
      annotated == [n \in 1..Len(found) |->
                      Merge(found[n],
                            [distance |-> calculate_distance(
                                latitude, longitude,
                                found[n].latitude, found[n].longitude)])]
  IN SelectSeq(annotated, LAMBDA spot : spot.distance <= radius)

\* GET /parking-spots/nearby: the router asks for the credential, then the
\* query parameters are validated.
get_nearby_parking_spots(token, latitude, longitude, radius) ==
  LET op == "nearby"
      query == <<[latitude |-> latitude, longitude |-> longitude,
                  radius |-> radius]>>
      nearby_spots == SortByDistance(NearbySpots(latitude, longitude, radius))
  IN
  /\ IF verify_token(token) = None
     THEN ReplyQuery(op, token, query, HTTP_401_UNAUTHORIZED, NoData)
     ELSE IF radius < RadiusMin \/ radius > RadiusMax
     THEN ReplyQuery(op, token, query, HTTP_422_UNPROCESSABLE_ENTITY, NoData)
     ELSE ReplyQuery(op, token, query, HTTP_200_OK, <<[spots |-> nearby_spots]>>)
  /\ UNCHANGED <<users, spots, bookings, spotSeq, bookingSeq, authUsers, now>>

\* GET /parking-spots/{id}: again only the router asks for the credential.
get_parking_spot_by_id(token, spot_id) ==
  LET op == "get_spot"
      spot == get_parking_spot(spot_id)
  IN
  IF verify_token(token) = None THEN Fail(op, token, spot_id, HTTP_401_UNAUTHORIZED)
  ELSE IF spot = NoDoc THEN Fail(op, token, spot_id, HTTP_404_NOT_FOUND)
  ELSE /\ Reply(op, token, spot_id, HTTP_200_OK, spot)
       /\ UNCHANGED <<users, spots, bookings, spotSeq, bookingSeq, authUsers, now>>

\* GET /parking-spots/my-spots
get_my_parking_spots(token) ==
  LET firebase_uid == verify_token(token)
      op == "my_spots"
  IN
  IF firebase_uid = None THEN Fail(op, token, NoTarget, HTTP_401_UNAUTHORIZED)
  ELSE /\ Reply(op, token, NoTarget, HTTP_200_OK,
                <<get_parking_spots_by_owner(firebase_uid)>>)
       /\ UNCHANGED <<users, spots, bookings, spotSeq, bookingSeq, authUsers, now>>

-----------------------------------------------------------------------------
(* bookings_router *)

\* The requester must be the authenticated identity.
FinderIsCaller(finder_id, firebase_uid) == finder_id = firebase_uid


\* Mutant: "and" for "or": only a window outside on both sides is refused.
WithinAvailabilityOneSide(spot, start_time, end_time) ==
  ~(start_time < spot.availability_start /\ end_time > spot.availability_end)

\* Two windows share an instant
Overlap(a, b) == a.start_time <= b.end_time /\ b.start_time <= a.end_time

\* Mutant: a window is accepted only when no pending or approved booking of
\* the spot overlaps it.
WithinAvailabilityAndFree(spot, start_time, end_time) ==
  /\ ~(start_time < spot.availability_start \/ end_time > spot.availability_end)
  /\ \A b \in DOMAIN bookings :
       bookings[b].spot_id = spot.id /\ bookings[b].status \in {"pending", "approved"}
         => ~Overlap(bookings[b], [start_time |-> start_time, end_time |-> end_time])

\* Mutant: a window must also have a positive length.
WithinAvailabilityPositive(spot, start_time, end_time) ==
  /\ ~(start_time < spot.availability_start \/ end_time > spot.availability_end)
  /\ start_time < end_time

\* The requested window lies inside the spot's availability window.
WithinAvailability(spot, start_time, end_time) ==
  ~(start_time < spot.availability_start \/ end_time > spot.availability_end)


\* Mutant: the rate is not multiplied by the hours.
TotalAmountFlat(spot, start_time, end_time) == spot.hourly_rate

\* hours * hourly_rate, hours being (end - start).total_seconds() / 3600
TotalAmount(spot, start_time, end_time) ==
  (end_time - start_time) * spot.hourly_rate

\* POST /bookings/
create_booking_request(token, finder_id, spot_id, start_time, end_time, cap) ==
  LET firebase_uid == verify_token(token)
      op == "create_booking"
      spot == get_parking_spot(spot_id)
      booking_id == bookingSeq + 1
      booking_dict == [ id |-> booking_id,
                        spot_id |-> spot_id,
                        finder_id |-> finder_id,
                        start_time |-> start_time,
                        end_time |-> end_time,
                        total_amount |-> TotalAmount(spot[1], start_time, end_time),
                        status |-> "pending",
                        created_at |-> now ]
  IN
  IF firebase_uid = None THEN Fail(op, token, spot_id, HTTP_401_UNAUTHORIZED)
  ELSE IF ~FinderIsCaller(finder_id, firebase_uid)
  THEN Fail(op, token, spot_id, HTTP_403_FORBIDDEN)
  ELSE IF spot = NoDoc THEN Fail(op, token, spot_id, HTTP_404_NOT_FOUND)
  ELSE IF ~spot[1].is_available
  THEN Fail(op, token, spot_id, HTTP_400_BAD_REQUEST)
  ELSE IF ~WithinAvailability(spot[1], start_time, end_time)
  THEN Fail(op, token, spot_id, HTTP_400_BAD_REQUEST)
  ELSE /\ bookingSeq < cap
       /\ bookings' = SetDoc(bookings, booking_id, booking_dict)
       /\ bookingSeq' = booking_id
       /\ Reply(op, token, spot_id, HTTP_200_OK, <<booking_id>>)
       /\ UNCHANGED <<users, spots, spotSeq, authUsers, now>>


\* The bookings a finder made, in store order
get_user_bookings(user_id) ==
  LET ids == Ascending({i \in DOMAIN bookings : bookings[i].finder_id = user_id})
  IN [n \in 1..Len(ids) |-> bookings[ids[n]]]

\* Mutant: the status is not part of the query.
AllOfSpot(spot_id) ==
  LET ids == Ascending({i \in DOMAIN bookings : bookings[i].spot_id = spot_id})
  IN [n \in 1..Len(ids) |-> bookings[ids[n]]]

\* The pending bookings of one spot, in store order
PendingOfSpot(spot_id) ==
  LET ids == Ascending({i \in DOMAIN bookings :
                          /\ bookings[i].spot_id = spot_id
                          /\ bookings[i].status = "pending"})
  IN [n \in 1..Len(ids) |-> bookings[ids[n]]]

RECURSIVE PendingOfSpots(_)
PendingOfSpots(owned) ==
  IF owned = <<>> THEN <<>>
  ELSE PendingOfSpot(owned[1].id) \o PendingOfSpots(Tail(owned))

get_pending_bookings_for_owner(owner_id) ==
  PendingOfSpots(get_parking_spots_by_owner(owner_id))

\* GET /bookings/my-bookings
get_my_bookings(token) ==
  LET firebase_uid == verify_token(token)
      op == "my_bookings"
  IN
  IF firebase_uid = None THEN Fail(op, token, NoTarget, HTTP_401_UNAUTHORIZED)
  ELSE /\ Reply(op, token, NoTarget, HTTP_200_OK,
                <<get_user_bookings(firebase_uid)>>)
       /\ UNCHANGED <<users, spots, bookings, spotSeq, bookingSeq, authUsers, now>>

\* GET /bookings/pending-requests
get_pending_booking_requests(token) ==
  LET firebase_uid == verify_token(token)
      op == "pending_requests"
  IN
  IF firebase_uid = None THEN Fail(op, token, NoTarget, HTTP_401_UNAUTHORIZED)
  ELSE /\ Reply(op, token, NoTarget, HTTP_200_OK,
                <<get_pending_bookings_for_owner(firebase_uid)>>)
       /\ UNCHANGED <<users, spots, bookings, spotSeq, bookingSeq, authUsers, now>>

\* Mutant: the "not spot" half of the check is lost, so a missing spot stops
\* nobody.
OwnsSpotOfUnlessMissing(booking, firebase_uid) ==
  LET spot == get_parking_spot(booking.spot_id)
  IN spot = NoDoc \/ spot[1].owner_id = firebase_uid

\* "if not spot or spot['owner_id'] != firebase_uid" is false: the referenced
\* spot exists and the caller owns it.
OwnsSpotOf(booking, firebase_uid) ==
  LET spot == get_parking_spot(booking.spot_id)
  IN ~(spot = NoDoc \/ spot[1].owner_id # firebase_uid)


\* Mutant: the owner branch is lost, only the finder gets in.
GetBookingAccessFinderOnly(booking, firebase_uid) ==
  booking.finder_id = firebase_uid

\* get_booking's access check: the finder, or else the spot's owner
GetBookingAccess(booking, firebase_uid) ==
  ~(booking.finder_id # firebase_uid /\ ~OwnsSpotOf(booking, firebase_uid))

\* GET /bookings/{id}
get_booking_by_id(token, booking_id) ==
  LET firebase_uid == verify_token(token)
      op == "get_booking"
      booking == get_booking(booking_id)
  IN
  IF firebase_uid = None THEN Fail(op, token, booking_id, HTTP_401_UNAUTHORIZED)
  ELSE IF booking = NoDoc THEN Fail(op, token, booking_id, HTTP_404_NOT_FOUND)
  ELSE IF ~GetBookingAccess(booking[1], firebase_uid)
  THEN Fail(op, token, booking_id, HTTP_403_FORBIDDEN)
  ELSE /\ Reply(op, token, booking_id, HTTP_200_OK, booking)
       /\ UNCHANGED <<users, spots, bookings, spotSeq, bookingSeq, authUsers, now>>

\* The write shared by approve, reject and cancel: update_booking, then the
\* 500 when it reports failure, else the re-read booking.
UpdateBookingAndReply(op, token, booking_id, update_data) ==
  IF ~UpdateOk(bookings, booking_id)
  THEN Fail(op, token, booking_id, HTTP_500_INTERNAL_SERVER_ERROR)
  ELSE /\ bookings' = UpdateDoc(bookings, booking_id, update_data)
       /\ Reply(op, token, booking_id, HTTP_200_OK, GetDoc(bookings', booking_id))
       /\ UNCHANGED <<users, spots, spotSeq, bookingSeq, authUsers, now>>


\* Mutant: an approved booking may be approved again.
CanApproveAgain(booking) == booking.status \in {"pending", "approved"}

\* "Check if booking is pending"
CanApprove(booking) == booking.status = "pending"

\* PUT /bookings/{id}/approve
approve_booking_request(token, booking_id, response_message) ==
  LET firebase_uid == verify_token(token)
      op == "approve"
      booking == get_booking(booking_id)
      update_data == [ status |-> "approved",
                       owner_response |-> response_message,
                       responded_at |-> now ]
  IN
  IF firebase_uid = None THEN Fail(op, token, booking_id, HTTP_401_UNAUTHORIZED)
  ELSE IF booking = NoDoc THEN Fail(op, token, booking_id, HTTP_404_NOT_FOUND)
  ELSE IF ~OwnsSpotOf(booking[1], firebase_uid)
  THEN Fail(op, token, booking_id, HTTP_403_FORBIDDEN)
  ELSE IF ~CanApprove(booking[1])
  THEN Fail(op, token, booking_id, HTTP_400_BAD_REQUEST)
  ELSE UpdateBookingAndReply(op, token, booking_id, update_data)

CanReject(booking) == booking.status = "pending"

\* PUT /bookings/{id}/reject
reject_booking_request(token, booking_id, response_message) ==
  LET firebase_uid == verify_token(token)
      op == "reject"
      booking == get_booking(booking_id)
      update_data == [ status |-> "rejected",
                       owner_response |-> response_message,
                       responded_at |-> now ]
  IN
  IF firebase_uid = None THEN Fail(op, token, booking_id, HTTP_401_UNAUTHORIZED)
  ELSE IF booking = NoDoc THEN Fail(op, token, booking_id, HTTP_404_NOT_FOUND)
  ELSE IF ~OwnsSpotOf(booking[1], firebase_uid)
  THEN Fail(op, token, booking_id, HTTP_403_FORBIDDEN)
  ELSE IF ~CanReject(booking[1])
  THEN Fail(op, token, booking_id, HTTP_400_BAD_REQUEST)
  ELSE UpdateBookingAndReply(op, token, booking_id, update_data)

\* "Verify user is the finder"
IsFinder(booking, firebase_uid) == booking.finder_id = firebase_uid


\* Mutant: whatever is not yet cancelled may be cancelled.
CanCancelUnlessCancelled(booking) == booking.status # "cancelled"

\* "Check if booking can be cancelled"
CanCancel(booking) == booking.status \in {"pending", "approved"}

\* PUT /bookings/{id}/cancel
cancel_booking_request(token, booking_id) ==
  LET firebase_uid == verify_token(token)
      op == "cancel"
      booking == get_booking(booking_id)
      update_data == [ status |-> "cancelled", responded_at |-> now ]
  IN
  IF firebase_uid = None THEN Fail(op, token, booking_id, HTTP_401_UNAUTHORIZED)
  ELSE IF booking = NoDoc THEN Fail(op, token, booking_id, HTTP_404_NOT_FOUND)
  ELSE IF ~IsFinder(booking[1], firebase_uid)
  THEN Fail(op, token, booking_id, HTTP_403_FORBIDDEN)
  ELSE IF ~CanCancel(booking[1])
  THEN Fail(op, token, booking_id, HTTP_400_BAD_REQUEST)
  ELSE UpdateBookingAndReply(op, token, booking_id, update_data)

\* Mutant: when the spot is gone, anyone gets in.
DeleteBookingAccessSpotGone(booking, firebase_uid) ==
  \/ booking.finder_id = firebase_uid
  \/ get_parking_spot(booking.spot_id) = NoDoc
  \/ OwnsSpotOf(booking, firebase_uid)

\* delete_booking's access check: the finder, or else the spot's owner
DeleteBookingAccess(booking, firebase_uid) ==
  ~(booking.finder_id # firebase_uid /\ ~OwnsSpotOf(booking, firebase_uid))


\* Mutant: an approved booking counts as deletable.
CanDeleteApproved(booking) ==
  booking.status \in {"cancelled", "completed", "approved"}

\* Mutant: every status nothing leads out of counts as deletable.
CanDeleteAnyFinal(booking) ==
  booking.status \in {"cancelled", "completed", "rejected"}

\* "Check if booking can be deleted"
CanDelete(booking) == booking.status \in {"cancelled", "completed"}

\* DELETE /bookings/{id}
delete_booking(token, booking_id) ==
  LET firebase_uid == verify_token(token)
      op == "delete_booking"
      booking == get_booking(booking_id)
  IN
  IF firebase_uid = None THEN Fail(op, token, booking_id, HTTP_401_UNAUTHORIZED)
  ELSE IF booking = NoDoc THEN Fail(op, token, booking_id, HTTP_404_NOT_FOUND)
  ELSE IF ~DeleteBookingAccess(booking[1], firebase_uid)
  THEN Fail(op, token, booking_id, HTTP_403_FORBIDDEN)
  ELSE IF ~CanDelete(booking[1])
  THEN Fail(op, token, booking_id, HTTP_400_BAD_REQUEST)
  ELSE /\ bookings' = DeleteDoc(bookings, booking_id)
       /\ Reply(op, token, booking_id, HTTP_200_OK, NoData)
       /\ UNCHANGED <<users, spots, spotSeq, bookingSeq, authUsers, now>>


-----------------------------------------------------------------------------
(* Overlapping requests                                                      *)
(*                                                                           *)
(* A handler reads the store, checks what it read and writes in separate     *)
(* calls of the store, with no lock and no transaction around them.  Server  *)
(* processes that share the store can interleave these calls (inside one     *)
(* event loop the store calls block, and a handler runs through).  Below, a  *)
(* handler that passes its checks stops after its last read (begin_...) and  *)
(* makes its write and its response in a later step (finish_...);            *)
(* `inflight` holds what it carries from the one to the other.               *)

\* A slot for one more request in flight
FreeSlots == (1..MaxInFlight) \ DOMAIN inflight

Suspend(request) ==
  /\ FreeSlots # {}
  /\ inflight' = SetDoc(inflight, CHOOSE k \in FreeSlots : \A j \in FreeSlots : k <= j,
                        request)
  /\ UNCHANGED <<users, spots, bookings, spotSeq, bookingSeq, authUsers, now, resp>>

\* The party check of approve, reject (spot owner) and cancel (finder)
PartyCheck(op, booking, firebase_uid) ==
  IF op = "cancel" THEN IsFinder(booking, firebase_uid)
  ELSE OwnsSpotOf(booking, firebase_uid)

\* The status check of approve, reject and cancel
StatusCheck(op, booking) ==
  IF op = "approve" THEN CanApprove(booking)
  ELSE IF op = "reject" THEN CanReject(booking)
  ELSE CanCancel(booking)

\* The update_data of approve, reject and cancel
UpdateData(op, response_message) ==
  IF op = "approve"
  THEN [status |-> "approved", owner_response |-> response_message, responded_at |-> now]
  ELSE IF op = "reject"
  THEN [status |-> "rejected", owner_response |-> response_message, responded_at |-> now]
  ELSE [status |-> "cancelled", responded_at |-> now]

\* approve, reject or cancel up to the call of update_booking: the booking
\* is read and checked; a request that fails a check is answered at once.
begin_booking_update(op, token, booking_id, response_message) ==
  LET firebase_uid == verify_token(token)
      booking == get_booking(booking_id)
  IN
  IF firebase_uid = None THEN Fail(op, token, booking_id, HTTP_401_UNAUTHORIZED)
  ELSE IF booking = NoDoc THEN Fail(op, token, booking_id, HTTP_404_NOT_FOUND)
  ELSE IF ~PartyCheck(op, booking[1], firebase_uid)
  THEN Fail(op, token, booking_id, HTTP_403_FORBIDDEN)
  ELSE IF ~StatusCheck(op, booking[1])
  THEN Fail(op, token, booking_id, HTTP_400_BAD_REQUEST)
  ELSE Suspend([op |-> op, token |-> token, target |-> booking_id,
                data |-> UpdateData(op, response_message)])

\* approve, reject or cancel from the call of update_booking on: the write,
\* the re-read and the response.
finish_booking_update(k) ==
  /\ k \in DOMAIN inflight
  /\ inflight[k].op \in {"approve", "reject", "cancel"}
  /\ LET q == inflight[k] IN
     /\ IF ~UpdateOk(bookings, q.target)
        THEN /\ resp' = Response(q.op, q.token, verify_token(q.token), q.target,
                                 HTTP_500_INTERNAL_SERVER_ERROR, NoData)
             /\ UNCHANGED bookings
        ELSE /\ bookings' = UpdateDoc(bookings, q.target, q.data)
             /\ resp' = Response(q.op, q.token, verify_token(q.token), q.target,
                                 HTTP_200_OK, GetDoc(bookings', q.target))
     /\ inflight' = DeleteDoc(inflight, k)
     /\ UNCHANGED <<users, spots, spotSeq, bookingSeq, authUsers, now>>

\* create_booking_request up to the call of create_booking: the spot is read
\* and checked, the total is computed from the spot as read.
begin_create_booking(token, finder_id, spot_id, start_time, end_time) ==
  LET firebase_uid == verify_token(token)
      op == "create_booking"
      spot == get_parking_spot(spot_id)
      booking_dict == [ spot_id |-> spot_id,
                        finder_id |-> finder_id,
                        start_time |-> start_time,
                        end_time |-> end_time,
                        total_amount |-> TotalAmount(spot[1], start_time, end_time),
                        status |-> "pending",
                        created_at |-> now ]
  IN
  IF firebase_uid = None THEN Fail(op, token, spot_id, HTTP_401_UNAUTHORIZED)
  ELSE IF ~FinderIsCaller(finder_id, firebase_uid)
  THEN Fail(op, token, spot_id, HTTP_403_FORBIDDEN)
  ELSE IF spot = NoDoc THEN Fail(op, token, spot_id, HTTP_404_NOT_FOUND)
  ELSE IF ~spot[1].is_available
  THEN Fail(op, token, spot_id, HTTP_400_BAD_REQUEST)
  ELSE IF ~WithinAvailability(spot[1], start_time, end_time)
  THEN Fail(op, token, spot_id, HTTP_400_BAD_REQUEST)
  ELSE Suspend([op |-> op, token |-> token, target |-> spot_id, data |-> booking_dict])

\* create_booking_request from the call of create_booking on: the document
\* is added under a fresh id and the id is returned.
finish_create_booking(k, cap) ==
  /\ k \in DOMAIN inflight
  /\ inflight[k].op = "create_booking"
  /\ bookingSeq < cap
  /\ LET q == inflight[k]
         booking_id == bookingSeq + 1
     IN /\ bookings' = SetDoc(bookings, booking_id, Merge(q.data, [id |-> booking_id]))
        /\ bookingSeq' = booking_id
        /\ resp' = Response(q.op, q.token, verify_token(q.token), q.target,
                            HTTP_200_OK, <<booking_id>>)
        /\ inflight' = DeleteDoc(inflight, k)
        /\ UNCHANGED <<users, spots, spotSeq, authUsers, now>>

-----------------------------------------------------------------------------
(* auth_router and users_router *)

\* No request was handled by the step: the step was taken by the environment
NoRequest == Response("none", None, None, NoTarget, HTTP_200_OK, NoData)

\* Mutant: the provider is not consulted, every identity is taken as known.
ProviderKnowsAnyone(firebase_uid) == firebase_uid \in Identities

\* auth.get_user(uid) returns: the identity provider knows the identity.
ProviderKnows(firebase_uid) == firebase_uid \in authUsers

\* "if existing_user": a user document is stored under the identity.
UserExists(firebase_uid) == get_user(firebase_uid) # NoDoc

\* POST /auth/register: no credential is asked for.
register_user(firebase_uid, name, role) ==
  LET op == "register"
      user_dict == [ uid |-> firebase_uid,
                     name |-> name,
                     role |-> role,
                     created_at |-> now,
                     last_login_at |-> now ]
  IN
  IF ~ProviderKnows(firebase_uid)
  THEN FailNamed(op, firebase_uid, HTTP_400_BAD_REQUEST)
  ELSE IF UserExists(firebase_uid)
  THEN FailNamed(op, firebase_uid, HTTP_409_CONFLICT)
  ELSE /\ users' = SetDoc(users, firebase_uid, user_dict)
       /\ ReplyNamed(op, firebase_uid, HTTP_200_OK, <<firebase_uid>>)
       /\ UNCHANGED <<spots, bookings, spotSeq, bookingSeq, authUsers, now>>

\* register_user up to the call of create_user: the provider and the store
\* are asked, the record is built.
begin_register(firebase_uid, name, role) ==
  LET op == "register"
      user_dict == [ uid |-> firebase_uid,
                     name |-> name,
                     role |-> role,
                     created_at |-> now,
                     last_login_at |-> now ]
  IN
  IF ~ProviderKnows(firebase_uid)
  THEN FailNamed(op, firebase_uid, HTTP_400_BAD_REQUEST)
  ELSE IF UserExists(firebase_uid)
  THEN FailNamed(op, firebase_uid, HTTP_409_CONFLICT)
  ELSE Suspend([op |-> op, token |-> None, target |-> NoTarget, data |-> user_dict])

\* register_user from the call of create_user on: document(uid).set(...)
\* writes the record whether or not one is stored, then the response.
finish_register(k) ==
  /\ k \in DOMAIN inflight
  /\ inflight[k].op = "register"
  /\ LET q == inflight[k] IN
     /\ users' = SetDoc(users, q.data.uid, q.data)
     /\ resp' = Response(q.op, None, q.data.uid, NoTarget, HTTP_200_OK, <<q.data.uid>>)
     /\ inflight' = DeleteDoc(inflight, k)
     /\ UNCHANGED <<spots, bookings, spotSeq, bookingSeq, authUsers, now>>

\* POST /auth/login: the identity is a query parameter and no credential is
\* asked for.  The record returned is the one read before the update.
login_user(firebase_uid) ==
  LET op == "login"
      user == get_user(firebase_uid)
  IN
  IF user = NoDoc THEN FailNamed(op, firebase_uid, HTTP_404_NOT_FOUND)
  ELSE /\ users' = UpdateDoc(users, firebase_uid, [last_login_at |-> now])
       /\ ReplyNamed(op, firebase_uid, HTTP_200_OK, user)
       /\ UNCHANGED <<spots, bookings, spotSeq, bookingSeq, authUsers, now>>

\* GET /auth/me
get_current_user(token) ==
  LET firebase_uid == verify_token(token)
      op == "me"
      user == get_user(firebase_uid)
  IN
  IF firebase_uid = None THEN Fail(op, token, NoTarget, HTTP_401_UNAUTHORIZED)
  ELSE IF user = NoDoc THEN Fail(op, token, NoTarget, HTTP_404_NOT_FOUND)
  ELSE /\ Reply(op, token, NoTarget, HTTP_200_OK, user)
       /\ UNCHANGED <<users, spots, bookings, spotSeq, bookingSeq, authUsers, now>>

\* DELETE /auth/logout: no credential is asked for, nothing is read or written.
logout_user ==
  /\ ReplyNamed("logout", None, HTTP_200_OK, NoData)
  /\ UNCHANGED <<users, spots, bookings, spotSeq, bookingSeq, authUsers, now>>

\* GET /users/profile
get_user_profile(token) ==
  LET firebase_uid == verify_token(token)
      op == "get_profile"
      user == get_user(firebase_uid)
  IN
  IF firebase_uid = None THEN Fail(op, token, NoTarget, HTTP_401_UNAUTHORIZED)
  ELSE IF user = NoDoc THEN Fail(op, token, NoTarget, HTTP_404_NOT_FOUND)
  ELSE /\ Reply(op, token, NoTarget, HTTP_200_OK, user)
       /\ UNCHANGED <<users, spots, bookings, spotSeq, bookingSeq, authUsers, now>>

\* PUT /users/profile.  `user_update` holds exactly the fields supplied.
update_user_profile(token, user_update) ==
  LET firebase_uid == verify_token(token)
      op == "update_profile"
      existing_user == get_user(firebase_uid)
      update_data == user_update
  IN
  IF firebase_uid = None THEN Fail(op, token, NoTarget, HTTP_401_UNAUTHORIZED)
  ELSE IF existing_user = NoDoc
  THEN Fail(op, token, NoTarget, HTTP_404_NOT_FOUND)
  ELSE IF DOMAIN update_data = {}
  THEN Fail(op, token, NoTarget, HTTP_400_BAD_REQUEST)
  ELSE /\ users' = UpdateDoc(users, firebase_uid, update_data)
       /\ Reply(op, token, NoTarget, HTTP_200_OK, GetDoc(users', firebase_uid))
       /\ UNCHANGED <<spots, bookings, spotSeq, bookingSeq, authUsers, now>>

\* DELETE /users/profile
delete_user_profile(token) ==
  LET firebase_uid == verify_token(token)
      op == "delete_profile"
      existing_user == get_user(firebase_uid)
  IN
  IF firebase_uid = None THEN Fail(op, token, NoTarget, HTTP_401_UNAUTHORIZED)
  ELSE IF existing_user = NoDoc
  THEN Fail(op, token, NoTarget, HTTP_404_NOT_FOUND)
  ELSE /\ users' = DeleteDoc(users, firebase_uid)
       /\ Reply(op, token, NoTarget, HTTP_200_OK, NoData)
       /\ UNCHANGED <<spots, bookings, spotSeq, bookingSeq, authUsers, now>>

\* The identity provider drops an identity, or takes it on (again): the
\* outcomes auth.get_user distinguishes.  User documents are not touched.
ProviderDeletesIdentity(firebase_uid) ==
  /\ firebase_uid \in authUsers
  /\ authUsers' = authUsers \ {firebase_uid}
  /\ resp' = NoRequest
  /\ inflight' = inflight
  /\ UNCHANGED <<users, spots, bookings, spotSeq, bookingSeq, now>>

ProviderCreatesIdentity(firebase_uid) ==
  /\ firebase_uid \notin authUsers
  /\ authUsers' = authUsers \cup {firebase_uid}
  /\ resp' = NoRequest
  /\ inflight' = inflight
  /\ UNCHANGED <<users, spots, bookings, spotSeq, bookingSeq, now>>

\* Time passes: datetime.utcnow() returns a later value.
Tick ==
  /\ now < MaxClock
  /\ now' = now + 1
  /\ resp' = NoRequest
  /\ inflight' = inflight
  /\ UNCHANGED <<users, spots, bookings, spotSeq, bookingSeq, authUsers>>

-----------------------------------------------------------------------------
(* Specifications *)

Init ==
  /\ users = EmptyColl
  /\ spots = EmptyColl
  /\ bookings = EmptyColl
  /\ spotSeq = 0
  /\ bookingSeq = 0
  /\ authUsers = Identities
  /\ now = 1
  /\ resp = NoRequest
  /\ inflight = EmptyColl

-----------------------------------------------------------------------------
(* Inputs of the requests *)

SpotIds == 1..MaxSpots

BookingIds == 1..MaxBookings

\* Spec: the booking state machine and the authorization matrix.  alice lists
\* the spots; alice and bob both request bookings, so that a caller can be
\* owner and finder, owner only, finder only, or neither.
Next ==
  \/ \E token \in Tokens :
       create_parking_spot(token, "alice", "Al", 10, TRUE, 0, 2, 0, 0, "any", MaxSpots)
  \/ \E token \in Tokens, spot_id \in SpotIds,
        spot_update \in {EmptyColl, [is_available |-> FALSE]} :
       update_parking_spot(token, spot_id, spot_update)
  \/ \E token \in Tokens, spot_id \in SpotIds :
       delete_parking_spot(token, spot_id)
  \/ \E token \in Tokens, finder_id \in Identities, spot_id \in SpotIds :
       create_booking_request(token, finder_id, spot_id, 0, 2, MaxBookings)
  \/ \E token \in Tokens, booking_id \in BookingIds :
       get_booking_by_id(token, booking_id)
  \/ \E token \in Tokens, booking_id \in BookingIds :
       approve_booking_request(token, booking_id, "ok")
  \/ \E token \in Tokens, booking_id \in BookingIds :
       reject_booking_request(token, booking_id, "ok")
  \/ \E token \in Tokens, booking_id \in BookingIds :
       cancel_booking_request(token, booking_id)
  \/ \E token \in Tokens, booking_id \in BookingIds :
       delete_booking(token, booking_id)

Spec == Init /\ [][Next]_vars

\* SpecCreate: booking creation against spots that differ in availability
\* flag and window.
SpotWindows == {<<0, 2>>, <<1, 1>>}

BookingWindows == {<<0, 2>>, <<1, 1>>, <<0, 1>>, <<1, 2>>, <<2, 0>>}

NextCreate ==
  \/ \E token \in {"alice", BadToken}, is_available \in BOOLEAN,
        w \in SpotWindows :
       create_parking_spot(token, "alice", "Al", 10, is_available,
                           w[1], w[2], 0, 0, "any", MaxSpots)
  \/ \E spot_id \in SpotIds :
       delete_parking_spot("alice", spot_id)
  \/ \E token \in Tokens, finder_id \in Identities,
        spot_id \in SpotIds, w \in BookingWindows :
       create_booking_request(token, finder_id, spot_id, w[1], w[2], MaxBookings)

SpecCreate == Init /\ [][NextCreate]_vars

\* SpecPricing: what a booking costs, and what later requests do to it.
Rates == {10, 15}

NextPricing ==
  \/ \E hourly_rate \in Rates :
       create_parking_spot("alice", "alice", "Al", hourly_rate, TRUE,
                           0, 2, 0, 0, "any", MaxSpots)
  \/ \E spot_id \in SpotIds,
        spot_update \in {[hourly_rate |-> r] : r \in Rates} :
       update_parking_spot("alice", spot_id, spot_update)
  \/ \E spot_id \in SpotIds, w \in BookingWindows :
       create_booking_request("alice", "alice", spot_id, w[1], w[2], MaxBookings)
  \/ \E booking_id \in BookingIds :
       approve_booking_request("alice", booking_id, None)
  \/ \E booking_id \in BookingIds :
       reject_booking_request("alice", booking_id, None)
  \/ \E booking_id \in BookingIds :
       cancel_booking_request("alice", booking_id)

SpecPricing == Init /\ [][NextPricing]_vars

\* SpecUsers: registration, login and profiles, while time passes and the
\* identity provider's set of identities changes.
Names == {"Al", "Bo"}

NextUsers ==
  \/ \E firebase_uid \in Identities, name \in Names :
       register_user(firebase_uid, name, "finder")
  \/ \E firebase_uid \in Identities : login_user(firebase_uid)
  \/ \E token \in Tokens : get_current_user(token)
  \/ logout_user
  \/ \E token \in Tokens : get_user_profile(token)
  \/ \E token \in Tokens,
        user_update \in {EmptyColl} \cup {[name |-> n] : n \in Names} :
       update_user_profile(token, user_update)
  \/ \E token \in Tokens : delete_user_profile(token)
  \/ \E firebase_uid \in Identities : ProviderDeletesIdentity(firebase_uid)
  \/ \E firebase_uid \in Identities : ProviderCreatesIdentity(firebase_uid)
  \/ Tick

SpecUsers == Init /\ [][NextUsers]_vars

\* SpecSearch: listing over a catalogue of spots that differ in rate, place,
\* vehicle size and availability flag.
MaxListed == 2

Catalogue ==
  { [hourly_rate |-> 10, is_available |-> TRUE, latitude |-> 1,
     max_vehicle_size |-> "any"],
    [hourly_rate |-> 15, is_available |-> TRUE, latitude |-> 1,
     max_vehicle_size |-> "compact"],
    [hourly_rate |-> 15, is_available |-> TRUE, latitude |-> 3,
     max_vehicle_size |-> "any"],
    [hourly_rate |-> 10, is_available |-> FALSE, latitude |-> 1,
     max_vehicle_size |-> "any"] }

Searches ==
  {<<>>, <<EmptyColl>>}
    \cup {<<[max_price |-> x]>> : x \in {0, 10, 15}}
    \cup {<<[vehicle_size |-> "compact"]>>}
    \cup {<<[latitude |-> la, longitude |-> 1, radius |-> 12000]>> : la \in {0, 1}}
    \cup {<<[start_time |-> 0, end_time |-> 1]>>}

NextSearch ==
  \/ \E c \in Catalogue :
       create_parking_spot("alice", "alice", "Al", c.hourly_rate, c.is_available,
                           0, 2, c.latitude, 1, c.max_vehicle_size, MaxListed)
  \/ \E search \in Searches, page \in 1..2, size \in 1..2 :
       get_parking_spots("alice", search, page, size)
  \/ \E latitude \in {0, 1}, radius \in {50, 11120, 12000, 50000} :
       get_nearby_parking_spots("alice", latitude, 1, radius)
  \/ \E spot_id \in 1..MaxListed : get_parking_spot_by_id("alice", spot_id)
  \/ get_my_parking_spots("alice")

SpecSearch == Init /\ [][NextSearch]_vars

\* SpecUpdate: the life of a spot (create, update, delete) while time passes.
UpdateBodies ==
  { EmptyColl,
    [hourly_rate |-> 15],
    [is_available |-> FALSE, availability_end |-> 1],
    [hourly_rate |-> 10, is_available |-> TRUE],
    [owner_id |-> "carol", owner_name |-> "Bo", created_at |-> 0, id |-> 2,
     hourly_rate |-> 15] }

NextUpdate ==
  \/ \E token \in Identities :
       create_parking_spot(token, token, "Al", 10, TRUE, 0, 2, 0, 0, "any", MaxSpots)
  \/ \E token \in Identities, spot_id \in SpotIds, body \in UpdateBodies :
       update_parking_spot(token, spot_id, body)
  \/ \E token \in Identities, spot_id \in SpotIds : delete_parking_spot(token, spot_id)
  \/ Tick

SpecUpdate == Init /\ [][NextUpdate]_vars

\* SpecDouble: several bookings of one spot, requested one after the other
\* or while another request is in flight, and the owner's approvals.
MaxDouble == 2

DoubleWindows == {<<0, 2>>, <<1, 2>>, <<0, 0>>}

NextDouble ==
  \/ create_parking_spot("alice", "alice", "Al", 10, TRUE, 0, 2, 0, 0, "any", MaxSpots)
  \/ \E w \in DoubleWindows :
       create_booking_request("bob", "bob", 1, w[1], w[2], MaxDouble)
  \/ \E w \in DoubleWindows : begin_create_booking("bob", "bob", 1, w[1], w[2])
  \/ \E k \in 1..MaxInFlight : finish_create_booking(k, MaxDouble)
  \/ \E booking_id \in 1..MaxDouble : approve_booking_request("alice", booking_id, None)

SpecDouble == Init /\ [][NextDouble]_vars

\* SpecRace: approve, reject and cancel of one booking by the parties
\* allowed to, overlapping.
NextRace ==
  \/ create_parking_spot("alice", "alice", "Al", 10, TRUE, 0, 2, 0, 0, "any", MaxSpots)
  \/ \E spot_id \in SpotIds :
       create_booking_request("bob", "bob", spot_id, 0, 2, MaxBookings)
  \/ \E op \in {"approve", "reject"}, booking_id \in BookingIds :
       begin_booking_update(op, "alice", booking_id, None)
  \/ \E booking_id \in BookingIds :
       begin_booking_update("cancel", "bob", booking_id, None)
  \/ \E k \in 1..MaxInFlight : finish_booking_update(k)

SpecRace == Init /\ [][NextRace]_vars

\* SpecDeleteRace: approve, reject and cancel of a booking in flight while
\* the booking is cancelled and deleted.
NextDeleteRace ==
  \/ create_parking_spot("alice", "alice", "Al", 10, TRUE, 0, 2, 0, 0, "any", MaxSpots)
  \/ \E spot_id \in SpotIds :
       create_booking_request("bob", "bob", spot_id, 0, 2, MaxBookings)
  \/ \E op \in {"approve", "reject"}, booking_id \in BookingIds :
       begin_booking_update(op, "alice", booking_id, None)
  \/ \E booking_id \in BookingIds :
       begin_booking_update("cancel", "bob", booking_id, None)
  \/ \E k \in 1..MaxInFlight : finish_booking_update(k)
  \/ \E token \in Identities, booking_id \in BookingIds :
       delete_booking(token, booking_id)

SpecDeleteRace == Init /\ [][NextDeleteRace]_vars

\* SpecPending: owners list the pending requests on their spots while spots
\* are deleted and bookings are cancelled.
NextPending ==
  \/ \E token \in Identities :
       create_parking_spot(token, token, "Al", 10, TRUE, 0, 2, 0, 0, "any", MaxListed)
  \/ \E token \in Identities, spot_id \in 1..MaxListed :
       delete_parking_spot(token, spot_id)
  \/ \E spot_id \in 1..MaxListed :
       create_booking_request("bob", "bob", spot_id, 0, 2, MaxDouble)
  \/ \E booking_id \in 1..MaxDouble : cancel_booking_request("bob", booking_id)
  \/ \E token \in Identities : get_pending_booking_requests(token)

SpecPending == Init /\ [][NextPending]_vars

\* SpecRegisterRace: register requests that overlap, while time passes.
NextRegisterRace ==
  \/ \E firebase_uid \in Identities, name \in Names :
       register_user(firebase_uid, name, "finder")
  \/ \E firebase_uid \in Identities, name \in Names :
       begin_register(firebase_uid, name, "finder")
  \/ \E k \in 1..MaxInFlight : finish_register(k)
  \/ Tick

SpecRegisterRace == Init /\ [][NextRegisterRace]_vars

\* SpecGate: every endpoint, asked with and without a credential the
\* provider verifies.
GateTokens == {"alice", BadToken}

NextGate ==
  \/ register_user("alice", "Al", "finder")
  \/ login_user("alice")
  \/ \E token \in GateTokens : get_current_user(token)
  \/ logout_user
  \/ \E token \in GateTokens : get_user_profile(token)
  \/ \E token \in GateTokens : update_user_profile(token, [name |-> "Bo"])
  \/ \E token \in GateTokens : delete_user_profile(token)
  \/ \E token \in GateTokens :
       create_parking_spot(token, "alice", "Al", 10, TRUE, 0, 2, 1, 1, "any", MaxSpots)
  \/ \E token \in GateTokens, spot_id \in SpotIds :
       update_parking_spot(token, spot_id, [hourly_rate |-> 15])
  \/ \E token \in GateTokens, spot_id \in SpotIds :
       delete_parking_spot(token, spot_id)
  \/ \E token \in GateTokens : get_parking_spots(token, <<>>, 1, 1)
  \/ \E token \in GateTokens : get_nearby_parking_spots(token, 1, 1, 12000)
  \/ \E token \in GateTokens, spot_id \in SpotIds :
       get_parking_spot_by_id(token, spot_id)
  \/ \E token \in GateTokens : get_my_parking_spots(token)
  \/ \E token \in GateTokens, spot_id \in SpotIds :
       create_booking_request(token, "alice", spot_id, 0, 2, MaxBookings)
  \/ \E token \in GateTokens : get_my_bookings(token)
  \/ \E token \in GateTokens : get_pending_booking_requests(token)
  \/ \E token \in GateTokens, booking_id \in BookingIds :
       get_booking_by_id(token, booking_id)
  \/ \E token \in GateTokens, booking_id \in BookingIds :
       approve_booking_request(token, booking_id, None)
  \/ \E token \in GateTokens, booking_id \in BookingIds :
       reject_booking_request(token, booking_id, None)
  \/ \E token \in GateTokens, booking_id \in BookingIds :
       cancel_booking_request(token, booking_id)
  \/ \E token \in GateTokens, booking_id \in BookingIds :
       delete_booking(token, booking_id)

SpecGate == Init /\ [][NextGate]_vars

\* SpecErrors: every handler that writes, asked by the right party, by the
\* wrong party and without a valid credential, in every state of the
\* documents it names.
NextErrors ==
  \/ register_user("alice", "Al", "finder")
  \/ login_user("alice")
  \/ \E token \in GateTokens, user_update \in {EmptyColl, [name |-> "Bo"]} :
       update_user_profile(token, user_update)
  \/ \E token \in GateTokens : delete_user_profile(token)
  \/ ProviderDeletesIdentity("alice")
  \/ \E token \in Tokens :
       create_parking_spot(token, "alice", "Al", 10, TRUE, 0, 2, 0, 0, "any", MaxSpots)
  \/ \E token \in Tokens, spot_id \in SpotIds :
       update_parking_spot(token, spot_id, [is_available |-> FALSE])
  \/ \E token \in Tokens, spot_id \in SpotIds :
       delete_parking_spot(token, spot_id)
  \/ \E token \in Tokens, spot_id \in SpotIds :
       create_booking_request(token, "bob", spot_id, 0, 2, MaxBookings)
  \/ \E token \in Tokens, booking_id \in BookingIds :
       approve_booking_request(token, booking_id, None)
  \/ \E token \in Tokens, booking_id \in BookingIds :
       reject_booking_request(token, booking_id, None)
  \/ \E token \in Tokens, booking_id \in BookingIds :
       cancel_booking_request(token, booking_id)
  \/ \E token \in Tokens, booking_id \in BookingIds :
       delete_booking(token, booking_id)

SpecErrors == Init /\ [][NextErrors]_vars

-----------------------------------------------------------------------------
(* Properties.  The vocabulary below is that of the specification, stated    *)
(* on the store and on the last response, independently of the handlers.     *)

Authenticated(r) == r.token \in Identities

\* The current owner of the spot a booking references, None when the spot
\* is no longer stored
OwnerOfSpot(booking) ==
  IF booking.spot_id \in DOMAIN spots THEN spots[booking.spot_id].owner_id
  ELSE None

CallerIsOwner(r, booking) == r.token = OwnerOfSpot(booking)

CallerIsFinder(r, booking) == r.token = booking.finder_id

StoreUnchanged == UNCHANGED <<users, spots, bookings>>

\* The party approve, reject and cancel require
PassesAuthorization(r, booking) ==
  IF r.op = "cancel" THEN CallerIsFinder(r, booking) ELSE CallerIsOwner(r, booking)

SourceStates(op) ==
  IF op = "cancel" THEN {"pending", "approved"} ELSE {"pending"}

TargetState(op) ==
  CASE op = "approve" -> "approved"
    [] op = "reject" -> "rejected"
    [] op = "cancel" -> "cancelled"

\* A step that answers an approve, reject or cancel request of an
\* authenticated, authorized caller on a stored booking
TransitionRequest(r) ==
  /\ r.op \in {"approve", "reject", "cancel"}
  /\ Authenticated(r)
  /\ r.target \in DOMAIN bookings
  /\ PassesAuthorization(r, bookings[r.target])

\* C1: approve and reject succeed only on a pending booking, cancel only on a
\* pending or approved one; in every other status the request of an
\* authorized caller is answered 400 and the booking is left as it was (so a
\* second approve fails).  A request that succeeds moves the booking to the
\* operation's state.
C1_TransitionsNeedSourceState ==
  [][LET r == resp' IN
     TransitionRequest(r) =>
       LET status == bookings[r.target].status IN
       /\ r.code = HTTP_200_OK => status \in SourceStates(r.op)
       /\ r.code = HTTP_200_OK => bookings'[r.target].status = TargetState(r.op)
       /\ status \notin SourceStates(r.op) =>
            r.code = HTTP_400_BAD_REQUEST /\ StoreUnchanged]_vars

\* The owner approves an already-approved booking again and gets 400.
C1_Witness ==
  /\ resp.op = "approve"
  /\ resp.code = HTTP_400_BAD_REQUEST
  /\ resp.target \in DOMAIN bookings
  /\ bookings[resp.target].status = "approved"
  /\ CallerIsOwner(resp, bookings[resp.target])

\* The party each mutating request on a stored target requires
RequiredParty(r) ==
  CASE r.op \in {"update_spot", "delete_spot"} ->
         {spots[r.target].owner_id}
    [] r.op \in {"approve", "reject"} ->
         {OwnerOfSpot(bookings[r.target])} \ {None}
    [] r.op = "cancel" ->
         {bookings[r.target].finder_id}
    [] r.op = "delete_booking" ->
         ({OwnerOfSpot(bookings[r.target])} \ {None})
           \cup {bookings[r.target].finder_id}

TargetStored(r) ==
  \/ r.op \in {"update_spot", "delete_spot"} /\ r.target \in DOMAIN spots
  \/ /\ r.op \in {"approve", "reject", "cancel", "delete_booking"}
     /\ r.target \in DOMAIN bookings

Forbidden(r) == r.code = HTTP_403_FORBIDDEN /\ StoreUnchanged

\* C2: a mutating spot or booking request on a stored target by an
\* authenticated identity that is not the required party is answered 403 and
\* writes nothing, whatever else the request holds and whatever the
\* booking's status; createSpot and create booking are answered 403 when the
\* owner, respectively finder, they name is not the caller.
C2_WrongPartyForbidden ==
  [][/\ LET r == resp' IN
        Authenticated(r) /\ TargetStored(r) /\ r.token \notin RequiredParty(r)
          => Forbidden(r)
     /\ \A token \in Identities : \A owner_id \in Identities \ {token} :
          create_parking_spot(token, owner_id, "Al", 10, TRUE, 0, 2, 0, 0, "any", MaxSpots)
            => Forbidden(resp')
     /\ \A token \in Identities : \A finder_id \in Identities \ {token} :
        \A spot_id \in DOMAIN spots :
          create_booking_request(token, finder_id, spot_id, 0, 2, MaxBookings)
            => Forbidden(resp')]_vars

\* Someone who does not own the spot tries to approve a booking that is no
\* longer pending, and gets 403, not 400.
C2_Witness ==
  /\ resp.op = "approve"
  /\ resp.code = HTTP_403_FORBIDDEN
  /\ resp.target \in DOMAIN bookings
  /\ bookings[resp.target].status # "pending"
  /\ bookings[resp.target].spot_id \in DOMAIN spots
  /\ ~CallerIsOwner(resp, bookings[resp.target])

\* C5: delete booking removes the booking exactly when the caller is its
\* finder or the owner of its spot and its status is cancelled or completed;
\* any other caller gets 403, and such a caller on a booking in another
\* status gets 400 and the booking stays.
C5_DeleteBooking ==
  [][LET r == resp' IN
     r.op = "delete_booking" /\ Authenticated(r) /\ r.target \in DOMAIN bookings
       =>
       LET booking == bookings[r.target]
           party == CallerIsFinder(r, booking) \/ CallerIsOwner(r, booking)
           deletable == booking.status \in {"cancelled", "completed"}
       IN
       /\ r.target \notin DOMAIN bookings' <=> party /\ deletable
       /\ party /\ deletable =>
            r.code = HTTP_200_OK /\ bookings' = DeleteDoc(bookings, r.target)
       /\ ~party => Forbidden(r)
       /\ party /\ ~deletable =>
            r.code = HTTP_400_BAD_REQUEST /\ StoreUnchanged]_vars

\* A cancelled booking was deleted.
C5_Witness ==
  /\ resp.op = "delete_booking"
  /\ resp.code = HTTP_200_OK
  /\ resp.target \in 1..bookingSeq
  /\ resp.target \notin DOMAIN bookings

\* C6: once a booking is rejected, no request changes it or removes it.
C6_RejectedIsTerminal ==
  [][\A id \in DOMAIN bookings :
       bookings[id].status = "rejected" =>
         id \in DOMAIN bookings' /\ bookings'[id] = bookings[id]]_vars

\* A party to a rejected booking asked to cancel or delete it and was refused.
C6_Witness ==
  /\ resp.op \in {"cancel", "delete_booking"}
  /\ resp.code = HTTP_400_BAD_REQUEST
  /\ resp.target \in DOMAIN bookings
  /\ bookings[resp.target].status = "rejected"

\* C8: get booking answers an authenticated caller with the booking when the
\* caller is its finder or the current owner of its spot, and with 403
\* otherwise, also when the spot is no longer stored.
C8_GetBookingAccess ==
  resp.op = "get_booking" /\ Authenticated(resp) /\ resp.target \in DOMAIN bookings
    =>
    LET booking == bookings[resp.target] IN
    IF CallerIsFinder(resp, booking) \/ CallerIsOwner(resp, booking)
    THEN resp.code = HTTP_200_OK /\ resp.data = <<booking>>
    ELSE resp.code = HTTP_403_FORBIDDEN /\ resp.data = NoData

\* The spot was deleted, and its former owner is refused the booking.
C8_Witness ==
  /\ resp.op = "get_booking"
  /\ resp.code = HTTP_403_FORBIDDEN
  /\ resp.token = "alice"
  /\ resp.target \in DOMAIN bookings
  /\ bookings[resp.target].spot_id \notin DOMAIN spots

\* C3: create booking by an authenticated caller is answered 403 when
\* finder_id is not the caller; else 404 when the spot is not stored; else 400
\* when the spot's availability flag is false or start < availability_start
\* or end > availability_end; in every other case it stores exactly one new
\* booking, with status pending, and returns its id.
C3_CreateBooking ==
  [][\A token \in Identities, finder_id \in Identities, spot_id \in SpotIds,
        w \in BookingWindows :
       create_booking_request(token, finder_id, spot_id, w[1], w[2], MaxBookings)
         =>
         LET r == resp' IN
         IF finder_id # token THEN Forbidden(r)
         ELSE IF spot_id \notin DOMAIN spots
         THEN r.code = HTTP_404_NOT_FOUND /\ StoreUnchanged
         ELSE IF \/ ~spots[spot_id].is_available
                 \/ w[1] < spots[spot_id].availability_start
                 \/ w[2] > spots[spot_id].availability_end
         THEN r.code = HTTP_400_BAD_REQUEST /\ StoreUnchanged
         ELSE /\ r.code = HTTP_200_OK
              /\ \E id \in DOMAIN bookings' \ DOMAIN bookings :
                   /\ DOMAIN bookings' = DOMAIN bookings \cup {id}
                   /\ r.data = <<id>>
                   /\ bookings'[id].status = "pending"
                   /\ bookings'[id].spot_id = spot_id
                   /\ bookings'[id].finder_id = finder_id
                   /\ bookings'[id].start_time = w[1]
                   /\ bookings'[id].end_time = w[2]
              /\ \A id \in DOMAIN bookings : bookings'[id] = bookings[id]
              /\ UNCHANGED <<users, spots>>]_vars

\* A request was accepted on a spot whose window is the single instant 1,
\* and its booking is stored pending.
C3_Witness ==
  /\ resp.op = "create_booking"
  /\ resp.code = HTTP_200_OK
  /\ resp.data # NoData
  /\ resp.data[1] \in DOMAIN bookings
  /\ bookings[resp.data[1]].status = "pending"
  /\ bookings[resp.data[1]].spot_id \in DOMAIN spots
  /\ spots[bookings[resp.data[1]].spot_id].availability_start = 1

\* C4: a booking's total_amount is (end - start in hours) times the hourly
\* rate the spot has when the booking is created (rate 10 and two hours give
\* 20), and no later request changes it: not approve, reject or cancel, and
\* not an updateSpot that changes the rate.
C4_TotalAmountFixedAtCreation ==
  [][/\ LET r == resp' IN
        r.op = "create_booking" /\ r.code = HTTP_200_OK =>
          LET booking == bookings'[r.data[1]]
              hours == booking.end_time - booking.start_time
              rate == spots[booking.spot_id].hourly_rate
          IN /\ booking.total_amount = hours * rate
             /\ hours = 2 /\ rate = 10 => booking.total_amount = 20
     /\ \A id \in DOMAIN bookings \cap DOMAIN bookings' :
          bookings'[id].total_amount = bookings[id].total_amount]_vars

\* A two-hour booking made at rate 10 still costs 20 after it was approved
\* and the spot's rate was raised to 15.
C4_Witness ==
  \E id \in DOMAIN bookings :
    /\ bookings[id].start_time = 0
    /\ bookings[id].end_time = 2
    /\ bookings[id].total_amount = 20
    /\ bookings[id].status = "approved"
    /\ bookings[id].spot_id \in DOMAIN spots
    /\ spots[bookings[id].spot_id].hourly_rate = 15

\* The endpoints the specification calls public
PublicEndpoints == {"register", "list_spots", "get_spot", "nearby"}

\* C7 (as claimed): a request without a valid credential passes
\* authentication on register, spot listing, spot lookup and nearby search,
\* and is answered 401 on every other endpoint.
C7_CredentialRequiredExactly ==
  resp.op # "none" /\ ~Authenticated(resp) =>
    IF resp.op \in PublicEndpoints THEN resp.code # HTTP_401_UNAUTHORIZED
    ELSE resp.code = HTTP_401_UNAUTHORIZED

\* C9 (as claimed): register is answered 409 whenever a user record is stored
\* for the identity, and leaves the record unchanged.
C9_ConflictWheneverStored ==
  [][LET r == resp' IN
     r.op = "register" /\ r.uid \in DOMAIN users =>
       r.code = HTTP_409_CONFLICT /\ StoreUnchanged]_vars

\* C9 (amended): register is answered 400 whenever the identity provider
\* does not know the identity, also when a user record is stored for it; 409
\* when the provider knows it and a record is stored; in both cases nothing
\* is written.  Otherwise it stores one user record under the identity, with
\* created-at and last-login-at set to the current time.
C9_RegisterOutcomes ==
  [][LET r == resp' IN
     r.op = "register" =>
       IF r.uid \notin authUsers
       THEN r.code = HTTP_400_BAD_REQUEST /\ StoreUnchanged
       ELSE IF r.uid \in DOMAIN users
       THEN r.code = HTTP_409_CONFLICT /\ StoreUnchanged
       ELSE /\ r.code = HTTP_200_OK
            /\ DOMAIN users' = DOMAIN users \cup {r.uid}
            /\ \A u \in DOMAIN users : users'[u] = users[u]
            /\ users'[r.uid].uid = r.uid
            /\ users'[r.uid].created_at = now
            /\ users'[r.uid].last_login_at = now
            /\ UNCHANGED <<spots, bookings>>]_vars

\* Register was answered 400 for an identity that has a user record: the
\* provider no longer knows the identity.
C9_Witness ==
  /\ resp.op = "register"
  /\ resp.code = HTTP_400_BAD_REQUEST
  /\ resp.uid \in DOMAIN users
  /\ resp.uid \notin authUsers

\* C10 (as claimed): listSpots with max_price = X, for every X >= 0, returns
\* no spot whose hourly_rate is greater than X.
C10_MaxPriceRespected ==
  /\ resp.op = "list_spots" /\ resp.code = HTTP_200_OK
  /\ resp.query[1].search # <<>>
  /\ "max_price" \in DOMAIN resp.query[1].search[1]
  => \A n \in 1..Len(resp.data[1].spots) :
       resp.data[1].spots[n].hourly_rate <= resp.query[1].search[1].max_price

\* The ids of the spots whose availability flag is true
AvailableIds == {i \in DOMAIN spots : spots[i].is_available = TRUE}

\* The last answer is a successful spot listing
Listed == resp.op = "list_spots" /\ resp.code = HTTP_200_OK

\* C11: listSpots returns, for page p and size s, the elements
\* (p-1)*s .. p*s-1 of the filtered list in order (none when the page lies
\* beyond the last), total is the length of the filtered list and pages is
\* ceil(total/s); without filters the filtered list holds exactly the spots
\* whose availability flag is true, each once.
C11_Pagination ==
  Listed =>
    LET q == resp.query[1]
        out == resp.data[1]
        filtered == FilterSpots(q.search, get_available_parking_spots)
        first == (q.page - 1) * q.size
        held == {n \in 1..Len(filtered) : first < n /\ n <= first + q.size}
    IN /\ out.pagination.total = Len(filtered)
       /\ out.pagination.pages * q.size >= Len(filtered)
       /\ (out.pagination.pages - 1) * q.size < Len(filtered)
            \/ (out.pagination.pages = 0 /\ Len(filtered) = 0)
       /\ Len(out.spots) = Cardinality(held)
       /\ \A n \in 1..Len(out.spots) : out.spots[n] = filtered[first + n]
       /\ q.page > out.pagination.pages => out.spots = <<>>
       /\ q.search = <<>> =>
            /\ Len(filtered) = Cardinality(AvailableIds)
            /\ {filtered[n].id : n \in 1..Len(filtered)} = AvailableIds
            /\ \A n \in 1..Len(filtered) : filtered[n] = spots[filtered[n].id]

\* A page beyond the last was asked of a non-empty list, and came back empty
\* with the full count.
C11_Witness ==
  /\ Listed
  /\ resp.query[1].page > resp.data[1].pagination.pages
  /\ resp.data[1].pagination.total > 0
  /\ resp.data[1].spots = <<>>

\* The second page of a two-element list holds its second element.
C11_WitnessSecondPage ==
  /\ Listed
  /\ resp.query[1].page = 2 /\ resp.query[1].size = 1
  /\ Len(resp.data[1].spots) = 1
  /\ resp.data[1].pagination.total = 2

\* The last answer is a successful nearby search
Nearby == resp.op = "nearby" /\ resp.code = HTTP_200_OK

\* The distance of a stored spot from the centre of the last nearby search
DistanceFromCentre(i) ==
  calculate_distance(resp.query[1].latitude, resp.query[1].longitude,
                     spots[i].latitude, spots[i].longitude)

\* C12: listNearby returns exactly the available spots at a distance of at
\* most the radius from the centre, each once and annotated with that
\* distance, in non-decreasing order of distance, spots at equal distance in
\* the order of the store.
C12_NearbyExactSortedStable ==
  Nearby =>
    LET out == resp.data[1].spots
        within == {i \in AvailableIds : DistanceFromCentre(i) <= resp.query[1].radius}
    IN /\ Len(out) = Cardinality(within)
       /\ {out[n].id : n \in 1..Len(out)} = within
       /\ \A n \in 1..Len(out) :
            /\ out[n].distance = DistanceFromCentre(out[n].id)
            /\ out[n] = Merge(spots[out[n].id], [distance |-> out[n].distance])
       /\ \A m, n \in 1..Len(out) :
            m < n => \/ out[m].distance < out[n].distance
                     \/ out[m].distance = out[n].distance /\ out[m].id < out[n].id

\* A nearby search returned the later-created spot first because it is
\* nearer, and a spot whose distance equals the radius was returned.
C12_Witness ==
  /\ Nearby
  /\ Len(resp.data[1].spots) = 2
  /\ resp.data[1].spots[1].id > resp.data[1].spots[2].id
  /\ resp.data[1].spots[1].distance < resp.data[1].spots[2].distance

\* A nearby search returned two spots at a distance equal to the radius, in
\* store order.
C12_WitnessBoundaryTie ==
  /\ Nearby
  /\ Len(resp.data[1].spots) = 2
  /\ \A n \in 1..2 : resp.data[1].spots[n].distance = resp.query[1].radius
  /\ resp.data[1].spots[1].id < resp.data[1].spots[2].id

\* C13 (as claimed): whenever listSpots is given a centre latitude, a centre
\* longitude and a radius, for every value of the three, no returned spot is
\* farther from the centre than the radius.
C13_RadialFilterAlwaysApplied ==
  /\ Listed
  /\ resp.query[1].search # <<>>
  /\ {"latitude", "longitude", "radius"} \subseteq DOMAIN resp.query[1].search[1]
  => LET s == resp.query[1].search[1]
     IN \A n \in 1..Len(resp.data[1].spots) :
          calculate_distance(s.latitude, s.longitude,
                             resp.data[1].spots[n].latitude,
                             resp.data[1].spots[n].longitude) <= s.radius

\* The fields of a spot that no request may change
FixedSpotFields == {"id", "owner_id", "owner_name", "created_at"}

\* C14: a successful updateSpot sets each supplied updatable field to the
\* supplied value and updated_at to the current time (also when no field is
\* supplied) and changes nothing else; no step changes the id, owner_id,
\* owner_name or created_at of a stored spot (owner_id is the identity approve
\* and reject compare the caller with).
C14_UpdateTouchesOnlySupplied ==
  [][/\ \A token \in Identities, spot_id \in SpotIds, body \in UpdateBodies :
          update_parking_spot(token, spot_id, body) /\ resp'.code = HTTP_200_OK =>
            /\ DOMAIN spots' = DOMAIN spots
            /\ DOMAIN spots'[spot_id] = DOMAIN spots[spot_id]
            /\ \A f \in DOMAIN spots[spot_id] :
                 spots'[spot_id][f] =
                   IF f = "updated_at" THEN now
                   ELSE IF f \in DOMAIN body /\ f \in UpdatableFields THEN body[f]
                   ELSE spots[spot_id][f]
            /\ \A other \in DOMAIN spots \ {spot_id} : spots'[other] = spots[other]
            /\ UNCHANGED <<users, bookings>>
     /\ \A i \in DOMAIN spots \cap DOMAIN spots' :
          \A f \in FixedSpotFields : spots'[i][f] = spots[i][f]]_vars

\* An update that supplied no field succeeded at a later time than the
\* spot's creation: updated_at was refreshed, created_at was not.
C14_Witness ==
  /\ resp.op = "update_spot" /\ resp.code = HTTP_200_OK
  /\ resp.data[1].updated_at = 2 /\ resp.data[1].created_at = 1
  /\ resp.data[1].hourly_rate = 10 /\ resp.data[1].is_available = TRUE
  /\ resp.data[1].owner_id = resp.token

\* C15: deleteSpot by the owner succeeds whatever bookings reference the
\* spot, removes the spot, and leaves every booking as it was: none is
\* removed and none changes status.
C15_DeleteSpotKeepsBookings ==
  [][LET r == resp' IN
     /\ r.op = "delete_spot" /\ Authenticated(r)
     /\ r.target \in DOMAIN spots
     /\ spots[r.target].owner_id = r.token
     => /\ r.code = HTTP_200_OK
        /\ r.target \notin DOMAIN spots'
        /\ bookings' = bookings
        /\ users' = users]_vars

\* The owner deleted a spot that an approved booking references; the booking
\* is still stored as approved.
C15_Witness ==
  /\ resp.op = "delete_spot" /\ resp.code = HTTP_200_OK
  /\ \E b \in DOMAIN bookings :
       /\ bookings[b].spot_id = resp.target
       /\ bookings[b].status = "approved"
  /\ resp.target \notin DOMAIN spots

\* C16: double booking is reachable.  A booking request whose window lies in
\* the availability window of an available spot succeeds whatever bookings
\* the spot already has, when it runs in one piece and when it overlaps
\* another request; the owner's approval of a pending booking succeeds
\* whatever else is approved on the spot.
C16_NoOverlapCheck ==
  [][/\ \A w \in DoubleWindows :
          /\ create_booking_request("bob", "bob", 1, w[1], w[2], MaxDouble)
          /\ 1 \in DOMAIN spots
          => /\ resp'.code = HTTP_200_OK
             /\ bookings'[resp'.data[1]].status = "pending"
             /\ bookings'[resp'.data[1]].start_time = w[1]
             /\ bookings'[resp'.data[1]].end_time = w[2]
     /\ \A k \in 1..MaxInFlight :
          finish_create_booking(k, MaxDouble)
          => /\ resp'.code = HTTP_200_OK
             /\ bookings'[resp'.data[1]] = Merge(inflight[k].data, [id |-> resp'.data[1]])
             /\ \A b \in DOMAIN bookings : bookings'[b] = bookings[b]
     /\ \A booking_id \in 1..MaxDouble :
          /\ approve_booking_request("alice", booking_id, None)
          /\ booking_id \in DOMAIN bookings
          /\ bookings[booking_id].status = "pending"
          /\ bookings[booking_id].spot_id \in DOMAIN spots
          => /\ resp'.code = HTTP_200_OK
             /\ bookings'[booking_id].status = "approved"]_vars

\* Two approved bookings of the same spot whose windows (of positive length)
\* overlap are stored.
C16_Witness ==
  \E a, b \in DOMAIN bookings :
    /\ a # b
    /\ bookings[a].spot_id = bookings[b].spot_id
    /\ bookings[a].status = "approved" /\ bookings[b].status = "approved"
    /\ bookings[a].start_time < bookings[a].end_time
    /\ bookings[b].start_time < bookings[b].end_time
    /\ Overlap(bookings[a], bookings[b])

\* Two requests for overlapping windows of the same spot are in flight at
\* the same time, both past their checks.
C16_WitnessInFlight ==
  /\ DOMAIN inflight = {1, 2}
  /\ inflight[1].target = inflight[2].target
  /\ inflight[1].data.start_time < inflight[1].data.end_time
  /\ inflight[2].data.start_time < inflight[2].data.end_time
  /\ Overlap(inflight[1].data, inflight[2].data)

\* C17: a booking request whose end is not after its start, with start not
\* before the spot's availability_start and end not after its
\* availability_end, on an available spot, succeeds and stores a pending
\* booking whose total_amount is (end - start) * hourly_rate: zero or
\* negative.
C17_NonPositiveDurationAccepted ==
  [][\A token \in Identities, spot_id \in SpotIds, w \in BookingWindows :
       /\ w[2] <= w[1]
       /\ create_booking_request(token, token, spot_id, w[1], w[2], MaxBookings)
       /\ spot_id \in DOMAIN spots
       /\ spots[spot_id].is_available
       /\ w[1] >= spots[spot_id].availability_start
       /\ w[2] <= spots[spot_id].availability_end
       => /\ resp'.code = HTTP_200_OK
          /\ LET booking == bookings'[resp'.data[1]] IN
             /\ booking.status = "pending"
             /\ booking.start_time = w[1] /\ booking.end_time = w[2]
             /\ booking.total_amount = (w[2] - w[1]) * spots[spot_id].hourly_rate
             /\ spots[spot_id].hourly_rate > 0 => booking.total_amount <= 0]_vars

\* A pending booking that ends two hours before it starts is stored, with a
\* negative total.
C17_Witness ==
  \E b \in DOMAIN bookings :
    /\ bookings[b].status = "pending"
    /\ bookings[b].end_time < bookings[b].start_time
    /\ bookings[b].total_amount < 0

\* A pending booking of no duration is stored, with total zero.
C17_WitnessZero ==
  \E b \in DOMAIN bookings :
    /\ bookings[b].status = "pending"
    /\ bookings[b].end_time = bookings[b].start_time
    /\ bookings[b].total_amount = 0

\* The last answer is a successful listing of pending requests
PendingListed == resp.op = "pending_requests" /\ resp.code = HTTP_200_OK

\* The pending bookings whose spot is stored and owned by the identity
PendingOwnedBy(firebase_uid) ==
  {b \in DOMAIN bookings :
     /\ bookings[b].status = "pending"
     /\ bookings[b].spot_id \in DOMAIN spots
     /\ spots[bookings[b].spot_id].owner_id = firebase_uid}

\* C18: listPendingForOwner returns exactly the pending bookings whose spot
\* is stored and owned by the caller, each once (so none when the caller
\* owns no spot, and a pending booking of a deleted spot to nobody).
C18_PendingForOwner ==
  PendingListed =>
    LET out == resp.data[1] IN
    /\ Len(out) = Cardinality(PendingOwnedBy(resp.token))
    /\ {out[n].id : n \in 1..Len(out)} = PendingOwnedBy(resp.token)
    /\ \A n \in 1..Len(out) : out[n] = bookings[out[n].id]
    /\ (\A i \in DOMAIN spots : spots[i].owner_id # resp.token) => out = <<>>
    /\ \A n \in 1..Len(out) : out[n].spot_id \in DOMAIN spots

\* An owner was given a pending request while another pending booking,
\* whose spot was deleted, is stored and was not returned.
C18_Witness ==
  /\ PendingListed
  /\ Len(resp.data[1]) = 1
  /\ \E b \in DOMAIN bookings :
       /\ bookings[b].status = "pending"
       /\ bookings[b].spot_id \notin DOMAIN spots
       /\ b # resp.data[1][1].id

\* C19 (as claimed): login is answered 404 and changes nothing when no user
\* record is stored for the identity; otherwise it sets the stored
\* last_login_at to the current time and the last_login_at of the returned
\* record equals the stored one.
C19_LoginReturnsStoredRecord ==
  [][LET r == resp' IN
     r.op = "login" =>
       IF r.uid \notin DOMAIN users
       THEN r.code = HTTP_404_NOT_FOUND /\ StoreUnchanged
       ELSE /\ r.code = HTTP_200_OK
            /\ users'[r.uid].last_login_at = now
            /\ r.data[1].last_login_at = users'[r.uid].last_login_at]_vars

\* The edges of the booking state machine
StatusEdges ==
  { <<"pending", "approved">>, <<"pending", "rejected">>,
    <<"pending", "cancelled">>, <<"approved", "cancelled">> }

\* C20 (as claimed): also when approve, reject and cancel requests on one
\* booking overlap, the stored status of a booking changes only along the
\* edges of the state machine.
C20_StatusEdgesOnly ==
  [][\A b \in DOMAIN bookings \cap DOMAIN bookings' :
       bookings'[b].status # bookings[b].status =>
         <<bookings[b].status, bookings'[b].status>> \in StatusEdges]_vars

\* C21 (as claimed): also when register requests for one identity overlap,
\* a register reports success only when no record is stored for the
\* identity, and a stored user record is not overwritten.
C21_RegisterAtMostOnce ==
  [][/\ \A k \in 1..MaxInFlight :
          finish_register(k) /\ resp'.code = HTTP_200_OK
            => inflight[k].data.uid \notin DOMAIN users
     /\ \A u \in DOMAIN users \cap DOMAIN users' : users'[u] = users[u]]_vars

\* The status codes of the expected errors
ExpectedErrors ==
  { HTTP_400_BAD_REQUEST, HTTP_401_UNAUTHORIZED, HTTP_403_FORBIDDEN,
    HTTP_404_NOT_FOUND, HTTP_409_CONFLICT }

\* C22: a request that is answered with an expected error (400, 401, 403,
\* 404, 409) leaves the collections users, parking_spots and bookings
\* exactly as they were.
C22_ErrorsWriteNothing ==
  [][resp'.code \in ExpectedErrors => StoreUnchanged]_vars

\* An update of the profile that supplied no field was refused with 400
\* while a spot and a booking are stored.
C22_Witness ==
  /\ resp.op = "update_profile" /\ resp.code = HTTP_400_BAD_REQUEST
  /\ resp.uid \in DOMAIN users
  /\ spots # EmptyColl /\ bookings # EmptyColl

\* The stored bookings whose spot is no longer stored
Orphaned == {b \in DOMAIN bookings : bookings[b].spot_id \notin DOMAIN spots}

\* C23: once its spot is deleted, a booking is approved or rejected by
\* nobody (approve and reject are answered 403 to every identity); its
\* status changes only by its finder's cancel, to cancelled; only its
\* finder reads it or deletes it; and the spot does not come back.
C23_OrphanedBooking ==
  [][\A b \in Orphaned :
       LET r == resp'
           finder == bookings[b].finder_id
       IN
       /\ bookings[b].spot_id \notin DOMAIN spots'
       /\ r.target = b /\ r.op \in {"approve", "reject"} /\ Authenticated(r)
            => r.code = HTTP_403_FORBIDDEN /\ StoreUnchanged
       /\ b \in DOMAIN bookings' /\ bookings'[b].status # bookings[b].status
            => /\ bookings'[b].status = "cancelled"
               /\ r.op = "cancel" /\ r.target = b /\ r.token = finder
       /\ b \notin DOMAIN bookings'
            => r.op = "delete_booking" /\ r.target = b /\ r.token = finder
       /\ r.target = b /\ r.op = "get_booking" /\ Authenticated(r)
            => IF r.token = finder THEN r.code = HTTP_200_OK
               ELSE r.code = HTTP_403_FORBIDDEN
       /\ r.target = b /\ r.op = "delete_booking" /\ Authenticated(r) /\ r.token # finder
            => r.code = HTTP_403_FORBIDDEN /\ StoreUnchanged]_vars

\* The former owner asked to approve a pending booking of the spot they
\* deleted, and was refused with 403.
C23_Witness ==
  /\ resp.op = "approve" /\ resp.code = HTTP_403_FORBIDDEN
  /\ resp.token = "alice"
  /\ resp.target \in Orphaned
  /\ bookings[resp.target].status = "pending"

\* The statuses a request can give a booking
ReachableStatuses == {"pending", "approved", "rejected", "cancelled"}

\* C24: every stored booking has status pending, approved, rejected or
\* cancelled (never completed or confirmed); a booking leaves the store only
\* through delete-booking and only from status cancelled; an approved booking
\* changes status only by its finder's cancel.
C24_NoCompletedStatus ==
  [][/\ \A b \in DOMAIN bookings' : bookings'[b].status \in ReachableStatuses
     /\ \A b \in DOMAIN bookings :
          /\ b \notin DOMAIN bookings'
               => /\ bookings[b].status = "cancelled"
                  /\ resp'.op = "delete_booking" /\ resp'.target = b
          /\ (/\ bookings[b].status = "approved"
              /\ b \in DOMAIN bookings'
              /\ bookings'[b].status # "approved")
               => /\ bookings'[b].status = "cancelled"
                  /\ resp'.op = "cancel" /\ resp'.token = bookings[b].finder_id]_vars

\* A cancelled booking was deleted by its finder's request and is gone.
C24_Witness ==
  /\ resp.op = "delete_booking" /\ resp.code = HTTP_200_OK
  /\ resp.target \notin DOMAIN bookings
  /\ bookingSeq >= resp.target

\* C25: a booking removed by delete-booking does not come back: a document
\* entering the bookings has a new id, and an approve, reject or cancel in
\* flight that makes its write (and leaves `inflight`) after its booking was
\* deleted gets a failed write, answers HTTP 500 and leaves the bookings as
\* they are.
C25_DeletedStaysDeleted ==
  [][/\ \A b \in DOMAIN bookings' \ DOMAIN bookings :
          b > bookingSeq /\ resp'.op = "create_booking"
     /\ \A k \in DOMAIN inflight \ DOMAIN inflight' :
          inflight[k].target \notin DOMAIN bookings
            => /\ resp'.code = HTTP_500_INTERNAL_SERVER_ERROR
               /\ resp'.op = inflight[k].op
               /\ resp'.target = inflight[k].target
               /\ bookings' = bookings]_vars

\* An approve that read the booking before its deletion was answered 500,
\* and the booking is still gone.
C25_Witness ==
  /\ resp.op = "approve" /\ resp.code = HTTP_500_INTERNAL_SERVER_ERROR
  /\ resp.target \in 1..bookingSeq
  /\ resp.target \notin DOMAIN bookings

====
